---- MODULE Spec2Model ----
(***************************************************************************)
(* Model of viz/plot_results.py: the benchmark visualisation pipeline of   *)
(* BlitzHash.  main() loads bench_results.csv and calls the three chart    *)
(* functions in sequence; each chart function is also a public function of *)
(* the module and can be called directly on a dataframe.                   *)
(*                                                                         *)
(* Throughputs (mb_s) are floats in the program.  They are modelled as     *)
(* exact fractions <<n, d>> in lowest terms; the two non-finite floats a   *)
(* division by zero produces are <<1, 0>> (inf) and <<0, 0>> (nan).        *)
(***************************************************************************)
EXTENDS Integers, Sequences, FiniteSets, TLC

(***************************************************************************)
(* Bounds and input families.                                              *)
(***************************************************************************)
MaxLen == 3

Algorithms == {"BlitzHash-MT", "SHA-256"}

\* groupby('algorithm') orders its keys lexicographically
AlgorithmOrder == <<"BlitzHash-MT", "SHA-256">>

\* rows of ordinary benchmark runs: two runs, both algorithms, zero throughput included
RunRecords ==
    [timestamp : {100, 200}, algorithm : Algorithms, threads : {1, 2}, mb_s : {0, 100}]

\* rows of a thread-scaling run of the parallel variant
ScalingRecords ==
    [timestamp : {100}, algorithm : {"BlitzHash-MT"}, threads : {1, 2, 4},
     mb_s : {100, 180, 300}]

Records == RunRecords \cup ScalingRecords

SeqsUpTo(S, n) == UNION {[1..k -> S] : k \in 0..n}

Datasets == SeqsUpTo(RunRecords, MaxLen) \cup SeqsUpTo(ScalingRecords, MaxLen)

Charts == {"plot_throughput_comparison", "plot_threading_scaling", "plot_history"}

(***************************************************************************)
(* Float arithmetic on fractions.                                          *)
(***************************************************************************)
RECURSIVE GCD(_, _)
GCD(a, b) == IF b = 0 THEN a ELSE GCD(b, a % b)

Rat(n, d) == LET g == GCD(n, d) IN <<n \div g, d \div g>>

Inf == <<1, 0>>
NaN == <<0, 0>>

IsFinite(x) == x[2] # 0

\* float division x / y of non-negative finite values: no exception, inf or nan on y = 0
FloatDiv(x, y) ==
    IF y[1] = 0
    THEN (IF x[1] = 0 THEN NaN ELSE Inf)
    ELSE Rat(x[1] * y[2], x[2] * y[1])

FloatMul(x, t) == Rat(x[1] * t, x[2])

\* x < y on finite values
FloatLess(x, y) == x[1] * y[2] < y[1] * x[2]

(***************************************************************************)
(* Dataframe helpers.                                                      *)
(***************************************************************************)
RECURSIVE SumMbs(_)
SumMbs(rows) == IF rows = <<>> THEN 0 ELSE Head(rows).mb_s + SumMbs(Tail(rows))

\* Series.mean() of the mb_s column of a non-empty group
MeanMbs(rows) == Rat(SumMbs(rows), Len(rows))

SetMax(S) == CHOOSE x \in S : \A y \in S : y <= x

RECURSIVE SortedSeqOf(_)
SortedSeqOf(S) ==
    IF S = {} THEN <<>>
    ELSE LET m == CHOOSE x \in S : \A y \in S : x <= y
         IN <<m>> \o SortedSeqOf(S \ {m})

\* insertion of e into an ascending sequence, after the entries not greater (stable)
RECURSIVE InsertByValue(_, _)
InsertByValue(e, s) ==
    IF s = <<>> THEN <<e>>
    ELSE IF FloatLess(e.mb_s, Head(s).mb_s) THEN <<e>> \o s
    ELSE <<Head(s)>> \o InsertByValue(e, Tail(s))

RECURSIVE SortValues(_)
SortValues(s) ==
    IF s = <<>> THEN <<>>
    ELSE InsertByValue(s[Len(s)], SortValues(SubSeq(s, 1, Len(s) - 1)))

(***************************************************************************)
(* plot_throughput_comparison: the derived values.                         *)
(***************************************************************************)
\* df['timestamp'].max(); the empty column has none (nan): modelled as the empty set
LatestTimestamp(d) ==
    IF d = <<>> THEN {} ELSE {SetMax({d[i].timestamp : i \in 1..Len(d)})}

\* variant: the latest-run filter left out
LatestAllRuns(d) == d

\* df[df['timestamp'] == latest_timestamp]
Latest(d) == SelectSeq(d, LAMBDA r : r.timestamp \in LatestTimestamp(d))

\* rows.groupby(by)['mb_s'].mean(): one entry per key present, in key order
GroupMean(rows, by, keyOrder) ==
    LET present == SelectSeq(keyOrder,
                             LAMBDA k : \E i \in 1..Len(rows) : rows[i][by] = k)
    IN [i \in 1..Len(present) |->
           [key  |-> present[i],
            mb_s |-> MeanMbs(SelectSeq(rows, LAMBDA r : r[by] = present[i]))]]

\* latest.groupby('algorithm')['mb_s'].mean().sort_values()
Summary(d) == SortValues(GroupMean(Latest(d), "algorithm", AlgorithmOrder))

\* variant: summary.min(), which is nan on the empty series and raises nothing
BaselineMin(s) == IF Len(s) = 0 THEN NaN ELSE s[1].mb_s

\* summary.iloc[0]: the first value, or <<>> where the lookup raises IndexError
\* (single positional indexer out of bounds on the empty series)
Baseline(s) == IF Len(s) = 0 THEN <<>> ELSE s[1].mb_s

\* summary / baseline
Speedup(s, b) ==
    [i \in 1..Len(s) |-> [key |-> s[i].key, value |-> FloatDiv(s[i].mb_s, b)]]

\* the rows of the printed summary table
SummaryTable(s, b) ==
    [i \in 1..Len(s) |->
        [algo |-> s[i].key, mb_s |-> s[i].mb_s, speedup_val |-> FloatDiv(s[i].mb_s, b)]]

(***************************************************************************)
(* plot_threading_scaling: the derived values.                             *)
(***************************************************************************)
\* variant: the algorithm filter left out
ParallelAnyAlgorithm(d) == d

\* df[df['algorithm'] == 'BlitzHash-MT']
Parallel(d) == SelectSeq(d, LAMBDA r : r.algorithm = "BlitzHash-MT")

\* parallel.groupby('threads')['mb_s'].mean().sort_index()
ByThreads(p) ==
    GroupMean(p, "threads", SortedSeqOf({p[i].threads : i \in 1..Len(p)}))

\* variant: the reference rate taken at the highest thread count
SingleThreadSpeedLast(bt) == bt[Len(bt)].mb_s

\* by_threads.iloc[0]
SingleThreadSpeed(bt) == bt[1].mb_s

\* [single_thread_speed * t for t in by_threads.index]
Ideal(bt) ==
    [i \in 1..Len(bt) |-> [key |-> bt[i].key, value |-> FloatMul(SingleThreadSpeed(bt), bt[i].key)]]

\* the two early returns of plot_threading_scaling
ScalingSkips(d) == Len(Parallel(d)) = 0 \/ Len(ByThreads(Parallel(d))) < 2

(***************************************************************************)
(* plot_history: the derived values.                                       *)
(***************************************************************************)
\* df['timestamp'].nunique()
NUniqueTimestamps(d) == Cardinality({d[i].timestamp : i \in 1..Len(d)})

\* variant: rows counted instead of distinct timestamps
HistorySkipsOnRowCount(d) == Len(d) < 2

\* if df['timestamp'].nunique() < 2: return
HistorySkips(d) == NUniqueTimestamps(d) < 2

\* df['algorithm'].unique(): the distinct values in order of first appearance
RECURSIVE UniqueInOrder(_)
UniqueInOrder(s) ==
    IF s = <<>> THEN <<>>
    ELSE LET u == UniqueInOrder(SubSeq(s, 1, Len(s) - 1))
         IN IF \E i \in 1..Len(u) : u[i] = s[Len(s)] THEN u ELSE Append(u, s[Len(s)])

\* rows.sort_values('timestamp'): ascending, rows of one timestamp keep their order
RECURSIVE InsertByTimestamp(_, _)
InsertByTimestamp(e, s) ==
    IF s = <<>> THEN <<e>>
    ELSE IF e.timestamp < Head(s).timestamp THEN <<e>> \o s
    ELSE <<Head(s)>> \o InsertByTimestamp(e, Tail(s))

RECURSIVE SortByTimestamp(_)
SortByTimestamp(s) ==
    IF s = <<>> THEN <<>>
    ELSE InsertByTimestamp(s[Len(s)], SortByTimestamp(SubSeq(s, 1, Len(s) - 1)))

\* one line per algorithm: its (timestamp, mb_s) points, not averaged
HistoryLines(d) ==
    LET algos == UniqueInOrder([i \in 1..Len(d) |-> d[i].algorithm])
    IN [i \in 1..Len(algos) |->
          LET algo_data == SortByTimestamp(SelectSeq(d, LAMBDA r : r.algorithm = algos[i]))
          IN [label  |-> algos[i],
              points |-> [j \in 1..Len(algo_data) |->
                             <<algo_data[j].timestamp, algo_data[j].mb_s>>]]]

(***************************************************************************)
(* State.                                                                  *)
(***************************************************************************)
VARIABLES
    pc,           \* the function about to run, "exit" (process ended) or "returned"
    caller,       \* "main" for a run of the script, "direct" for a call of one chart function
    fileExists,   \* whether bench_results.csv exists
    csv,          \* the data rows of bench_results.csv
    df,           \* the dataframe the chart functions receive
    stdout,       \* the lines printed, as <<kind, argument>>
    exit_status,  \* <<>> while running, <<code>> once the process has ended
    error,        \* <<>> or <<name>> of the exception raised and not caught
    outcome,      \* per chart function: "not_called", "rendered", "skipped" or "raised"
    images,       \* the image files written by savefig
    summary,      \* plot_throughput_comparison: bars of the absolute panel
    baseline,     \* plot_throughput_comparison: <<>> until assigned
    speedup,      \* plot_throughput_comparison: bars of the relative panel
    table,        \* plot_throughput_comparison: rows of the printed summary table
    by_threads,   \* plot_threading_scaling: measured curve
    ideal,        \* plot_threading_scaling: ideal linear scaling curve
    lines         \* plot_history: the plotted lines

vars == <<pc, caller, fileExists, csv, df, stdout, exit_status, error, outcome, images,
          summary, baseline, speedup, table, by_threads, ideal, lines>>

chartVars == <<summary, baseline, speedup, table, by_threads, ideal, lines>>

csv_path == "bench_results.csv"

NotCalled == [c \in Charts |-> "not_called"]

Init ==
    /\ stdout = <<>>
    /\ exit_status = <<>>
    /\ error = <<>>
    /\ outcome = NotCalled
    /\ images = {}
    /\ summary = <<>> /\ baseline = <<>> /\ speedup = <<>> /\ table = <<>>
    /\ by_threads = <<>> /\ ideal = <<>> /\ lines = <<>>
    /\ \/ \* python plot_results.py
          /\ caller = "main"
          /\ pc = "main"
          /\ df = <<>>
          /\ \/ fileExists = TRUE /\ csv \in Datasets
             \/ fileExists = FALSE /\ csv = <<>>
       \/ \* a chart function called on a dataframe
          /\ caller = "direct"
          /\ pc \in Charts
          /\ df \in Datasets
          /\ fileExists = FALSE /\ csv = <<>>

(***************************************************************************)
(* Control flow shared by the chart functions.                             *)
(***************************************************************************)
\* variant: plot_history left out after plot_threading_scaling
MainNextStopsAfterSkip(fn) ==
    CASE fn = "plot_throughput_comparison" -> "plot_threading_scaling"
      [] fn = "plot_threading_scaling"     -> "main_end"
      [] fn = "plot_history"               -> "main_end"

\* main(): the calls in order, then the closing message
MainNext(fn) ==
    CASE fn = "plot_throughput_comparison" -> "plot_threading_scaling"
      [] fn = "plot_threading_scaling"     -> "plot_history"
      [] fn = "plot_history"               -> "main_end"

\* fn returns normally to its caller
Return(fn) ==
    /\ pc' = IF caller = "main" THEN MainNext(fn) ELSE "returned"
    /\ UNCHANGED <<exit_status, error>>

\* where an exception raised in fn and not caught by it ends up: main() has no handler,
\* so the interpreter prints the traceback and the process ends with status 1
Propagate(fn) == IF caller = "main" THEN "exit" ELSE "returned"

Raise(fn, exc) ==
    /\ error' = <<exc>>
    /\ pc' = Propagate(fn)
    /\ exit_status' = IF Propagate(fn) = "exit" THEN <<1>> ELSE exit_status

(***************************************************************************)
(* load_results, called by main.                                           *)
(***************************************************************************)
\* variant: the existence check left out
SourceMissingUnchecked(exists) == FALSE

\* if not Path(csv_path).exists()
SourceMissing(exists) == ~exists

load_results ==
    /\ pc = "main"
    /\ IF SourceMissing(fileExists)
       THEN /\ stdout' = stdout \o <<<<"banner", "">>, <<"not_found", csv_path>>,
                                     <<"hint", "cargo run --release --bin bench">>>>
            /\ exit_status' = <<1>>
            /\ pc' = "exit"
            /\ df' = df
       ELSE /\ df' = csv
            /\ stdout' = stdout \o <<<<"banner", "">>, <<"loaded", Len(csv)>>>>
            /\ exit_status' = exit_status
            /\ pc' = "plot_throughput_comparison"
    /\ UNCHANGED <<caller, fileExists, csv, error, outcome, images, chartVars>>

(***************************************************************************)
(* plot_throughput_comparison(df, 'bench_plot.png')                        *)
(***************************************************************************)
plot_throughput_comparison ==
    LET fn == "plot_throughput_comparison"
        s == Summary(df)
    IN
    /\ pc = fn
    /\ summary' = s
    /\ IF Baseline(s) = <<>>
       THEN \* summary.iloc[0] on the empty series: IndexError, raised before anything
            \* is saved or printed
            /\ Raise(fn, "IndexError")
            /\ outcome' = [outcome EXCEPT ![fn] = "raised"]
            /\ UNCHANGED <<baseline, speedup, table, images, stdout>>
       ELSE /\ baseline' = Baseline(s)
            /\ speedup' = Speedup(s, Baseline(s))
            /\ \E write_fails \in BOOLEAN :
                  IF ~write_fails
                  THEN /\ images' = images \cup {"bench_plot.png"}
                       /\ stdout' = stdout \o <<<<"chart_saved", "bench_plot.png">>,
                                                <<"summary_table", "">>>>
                       /\ table' = SummaryTable(s, Baseline(s))
                       /\ outcome' = [outcome EXCEPT ![fn] = "rendered"]
                       /\ Return(fn)
                  ELSE \* plt.savefig raises (the file cannot be written)
                       /\ Raise(fn, "OSError")
                       /\ outcome' = [outcome EXCEPT ![fn] = "raised"]
                       /\ UNCHANGED <<images, stdout, table>>
    /\ UNCHANGED <<caller, fileExists, csv, df, by_threads, ideal, lines>>

(***************************************************************************)
(* plot_threading_scaling(df, 'threading_plot.png')                        *)
(***************************************************************************)
plot_threading_scaling ==
    LET fn == "plot_threading_scaling"
        parallel == Parallel(df)
        bt == ByThreads(parallel)
    IN
    /\ pc = fn
    /\ IF ScalingSkips(df)
       THEN /\ by_threads' = IF Len(parallel) = 0 THEN by_threads ELSE bt
            /\ stdout' = Append(stdout,
                            IF Len(parallel) = 0
                            THEN <<"skip", "No parallel benchmark data found">>
                            ELSE <<"skip", "Need multiple thread counts">>)
            /\ outcome' = [outcome EXCEPT ![fn] = "skipped"]
            /\ Return(fn)
            /\ UNCHANGED <<ideal, images>>
       ELSE /\ by_threads' = bt
            /\ ideal' = Ideal(bt)
            /\ \E write_fails \in BOOLEAN :
                  IF ~write_fails
                  THEN /\ images' = images \cup {"threading_plot.png"}
                       /\ stdout' = Append(stdout, <<"chart_saved", "threading_plot.png">>)
                       /\ outcome' = [outcome EXCEPT ![fn] = "rendered"]
                       /\ Return(fn)
                  ELSE /\ Raise(fn, "OSError")
                       /\ outcome' = [outcome EXCEPT ![fn] = "raised"]
                       /\ UNCHANGED <<images, stdout>>
    /\ UNCHANGED <<caller, fileExists, csv, df, summary, baseline, speedup, table, lines>>

(***************************************************************************)
(* plot_history(df, 'history_plot.png')                                    *)
(***************************************************************************)
plot_history ==
    LET fn == "plot_history" IN
    /\ pc = fn
    /\ IF HistorySkips(df)
       THEN /\ stdout' = Append(stdout, <<"skip", "Need multiple benchmark runs">>)
            /\ outcome' = [outcome EXCEPT ![fn] = "skipped"]
            /\ Return(fn)
            /\ UNCHANGED <<lines, images>>
       ELSE /\ lines' = HistoryLines(df)
            /\ \E write_fails \in BOOLEAN :
                  IF ~write_fails
                  THEN /\ images' = images \cup {"history_plot.png"}
                       /\ stdout' = Append(stdout, <<"chart_saved", "history_plot.png">>)
                       /\ outcome' = [outcome EXCEPT ![fn] = "rendered"]
                       /\ Return(fn)
                  ELSE /\ Raise(fn, "OSError")
                       /\ outcome' = [outcome EXCEPT ![fn] = "raised"]
                       /\ UNCHANGED <<images, stdout>>
    /\ UNCHANGED <<caller, fileExists, csv, df, summary, baseline, speedup, table,
                   by_threads, ideal>>

(***************************************************************************)
(* main(): the closing message; the script then ends with status 0.        *)
(***************************************************************************)
main_end ==
    /\ pc = "main_end"
    /\ stdout' = Append(stdout, <<"all_charts_generated", "">>)
    /\ exit_status' = <<0>>
    /\ pc' = "exit"
    /\ UNCHANGED <<caller, fileExists, csv, df, error, outcome, images, chartVars>>

Next ==
    \/ load_results
    \/ plot_throughput_comparison
    \/ plot_threading_scaling
    \/ plot_history
    \/ main_end

Spec == Init /\ [][Next]_vars

(***************************************************************************)
(* Properties.                                                             *)
(***************************************************************************)
CMP == "plot_throughput_comparison"
SCL == "plot_threading_scaling"
HST == "plot_history"

One == <<1, 1>>
Zero == <<0, 1>>

RowsOf(rows, a) == SelectSeq(rows, LAMBDA r : r.algorithm = a)
AlgorithmsIn(rows) == {rows[i].algorithm : i \in 1..Len(rows)}

Printed(msg) == \E i \in 1..Len(stdout) : stdout[i][1] = msg[1] /\ stdout[i][2] = msg[2]
PrintedKind(kind) == \E i \in 1..Len(stdout) : stdout[i][1] = kind

\* C1: once plot_throughput_comparison has computed its summary on a dataset whose
\* latest run has at least one algorithm, the baseline is the smallest per-algorithm
\* mean mb_s of the latest run, and the speedup of the baseline algorithm is exactly 1.0.
C1_BaselineIsMinimumWithUnitSpeedup ==
    (outcome[CMP] # "not_called" /\ Len(Latest(df)) > 0) =>
        LET latest == Latest(df)
            n(a) == Len(RowsOf(latest, a))
            sum(a) == SumMbs(RowsOf(latest, a))
        IN /\ baseline # <<>>
           /\ \E a \in AlgorithmsIn(latest) : baseline[1] * n(a) = sum(a) * baseline[2]
           /\ \A a \in AlgorithmsIn(latest) : baseline[1] * n(a) <= sum(a) * baseline[2]
           /\ Len(speedup) = Len(summary)
           /\ \A i \in 1..Len(summary) :
                 summary[i].mb_s = baseline => speedup[i].value = One

\* d without the rows older than its latest run
LatestRunOnly(d) ==
    SelectSeq(d, LAMBDA r : \A i \in 1..Len(d) : d[i].timestamp <= r.timestamp)

\* what plot_throughput_comparison derives from a dataset
ComparisonOf(d) ==
    LET s == Summary(d)
    IN [summary  |-> s,
        baseline |-> Baseline(s),
        speedup  |-> IF Baseline(s) = <<>> THEN <<>> ELSE Speedup(s, Baseline(s))]

\* C2: latest-run isolation: the means, the baseline and the speedups that
\* plot_throughput_comparison derives from df are the ones it derives from the rows of
\* the latest run alone; so two datasets with the same maximum timestamp and the same
\* rows at it yield the same summary, whatever older rows each contains.
C2_LatestRunIsolation ==
    outcome[CMP] # "not_called" =>
        ComparisonOf(LatestRunOnly(df))
            = [summary |-> summary, baseline |-> baseline, speedup |-> speedup]

C2_Witness ==
    /\ outcome[CMP] = "rendered"
    /\ LatestRunOnly(df) # df
    /\ \E i, j \in 1..Len(df) : df[i].timestamp < df[j].timestamp
    /\ Len(summary) = 2

\* C3: when bench_results.csv does not exist, a run of main prints a diagnostic naming
\* the path and ends with exit status 1 in load_results, before any chart function is
\* called and with no image written.
C3_MissingSourceExits ==
    (caller = "main" /\ ~fileExists /\ pc # "main") =>
        /\ pc = "exit"
        /\ exit_status = <<1>>
        /\ Printed(<<"not_found", csv_path>>)
        /\ outcome = NotCalled
        /\ images = {}

C3_Witness ==
    /\ caller = "main" /\ ~fileExists /\ pc = "exit" /\ exit_status = <<1>>
    /\ Printed(<<"not_found", csv_path>>)

\* C4: in a run of main on a non-empty dataset, once plot_threading_scaling has skipped
\* or rendered, plot_history is the next call or has been called; once plot_history has
\* skipped or rendered, main is at its closing message or the process has ended with
\* exit status 0.
C4_SkipContinues ==
    (caller = "main" /\ Len(df) > 0) =>
        /\ outcome[SCL] \in {"skipped", "rendered"} =>
              (pc = HST \/ outcome[HST] # "not_called")
        /\ outcome[HST] \in {"skipped", "rendered"} =>
              /\ pc \in {"main_end", "exit"}
              /\ error = <<>>
              /\ pc = "exit" => exit_status = <<0>>

C4_Witness ==
    /\ caller = "main" /\ Len(df) > 0
    /\ outcome[SCL] = "skipped" /\ outcome[HST] = "skipped"
    /\ pc = "exit" /\ exit_status = <<0>>

MTRows(d) == SelectSeq(d, LAMBDA r : r.algorithm = "BlitzHash-MT")
MTThreadCounts(d) == {d[i].threads : i \in {j \in 1..Len(d) : d[j].algorithm = "BlitzHash-MT"}}
RowsAtThreads(d, t) == SelectSeq(MTRows(d), LAMBDA r : r.threads = t)

\* C5: whenever plot_threading_scaling gets past its skips, the ideal curve has one
\* value per distinct thread count t of the 'BlitzHash-MT' rows, equal to the mean mb_s
\* at the lowest thread count present times t; measured means {1:100, 2:180, 4:300}
\* give the ideal curve {1:100, 2:200, 4:400}.
C5_IdealCurve ==
    outcome[SCL] \in {"rendered", "raised"} =>
        LET T == MTThreadCounts(df)
            lo == CHOOSE t \in T : \A u \in T : t <= u
            lowRows == RowsAtThreads(df, lo)
        IN /\ Len(ideal) = Cardinality(T)
           /\ {ideal[i].key : i \in 1..Len(ideal)} = T
           /\ \A i \in 1..Len(ideal) :
                 /\ IsFinite(ideal[i].value)
                 /\ ideal[i].value[1] * Len(lowRows)
                       = SumMbs(lowRows) * ideal[i].key * ideal[i].value[2]
           /\ (by_threads = <<[key |-> 1, mb_s |-> <<100, 1>>],
                              [key |-> 2, mb_s |-> <<180, 1>>],
                              [key |-> 4, mb_s |-> <<300, 1>>]>>)
                 => ideal = <<[key |-> 1, value |-> <<100, 1>>],
                              [key |-> 2, value |-> <<200, 1>>],
                              [key |-> 4, value |-> <<400, 1>>]>>

C5_Witness ==
    /\ outcome[SCL] = "rendered"
    /\ "threading_plot.png" \in images
    /\ by_threads = <<[key |-> 1, mb_s |-> <<100, 1>>],
                      [key |-> 2, mb_s |-> <<180, 1>>],
                      [key |-> 4, mb_s |-> <<300, 1>>]>>
    /\ ideal[3].value = <<400, 1>>

\* C6: plot_threading_scaling skips, raising nothing and writing no scaling image, on
\* every dataset without 'BlitzHash-MT' rows and on every dataset whose 'BlitzHash-MT'
\* rows have fewer than two distinct thread counts; the scaling image is written only
\* when the 'BlitzHash-MT' rows themselves have at least two distinct thread counts.
C6_ScalingSkip ==
    /\ (outcome[SCL] # "not_called" /\ Cardinality(MTThreadCounts(df)) < 2) =>
          /\ outcome[SCL] = "skipped"
          /\ "threading_plot.png" \notin images
          /\ PrintedKind("skip")
          /\ ideal = <<>>
    /\ "threading_plot.png" \in images => Cardinality(MTThreadCounts(df)) >= 2

C6_Witness ==
    /\ outcome[SCL] = "skipped"
    /\ Len(MTRows(df)) > 0
    /\ \E i, j \in 1..Len(df) :
          /\ df[i].algorithm # "BlitzHash-MT" /\ df[j].algorithm # "BlitzHash-MT"
          /\ df[i].threads # df[j].threads

C6_WitnessNoParallel ==
    /\ outcome[SCL] = "skipped"
    /\ Len(df) > 0 /\ Len(MTRows(df)) = 0

\* C7: plot_history skips, raising nothing and writing no history image, on every
\* dataset with fewer than two distinct timestamps, whatever its rows and algorithms;
\* the history image is written only when at least two distinct timestamps are present.
C7_HistorySkip ==
    LET stamps == {df[i].timestamp : i \in 1..Len(df)}
    IN /\ (outcome[HST] # "not_called" /\ Cardinality(stamps) < 2) =>
             /\ outcome[HST] = "skipped"
             /\ "history_plot.png" \notin images
             /\ lines = <<>>
       /\ "history_plot.png" \in images => Cardinality(stamps) >= 2

C7_Witness ==
    /\ outcome[HST] = "skipped"
    /\ Len(df) >= 2
    /\ Cardinality(AlgorithmsIn(df)) = 2
    /\ "history_plot.png" \notin images

\* C8: when bench_results.csv exists with zero data rows, load_results returns the
\* empty dataset, and plot_throughput_comparison on an empty dataset raises an error:
\* it assigns no baseline, writes no comparison image and prints no summary table.
C8_EmptyDatasetRaises ==
    /\ (caller = "main" /\ fileExists /\ csv = <<>> /\ pc # "main") =>
          /\ df = <<>>
          /\ PrintedKind("loaded")
          /\ outcome[CMP] # "not_called" \/ pc = CMP
    /\ (outcome[CMP] # "not_called" /\ df = <<>>) =>
          /\ outcome[CMP] = "raised"
          /\ error # <<>>
          /\ baseline = <<>>
          /\ "bench_plot.png" \notin images
          /\ table = <<>>
          /\ ~PrintedKind("summary_table")

C8_Witness ==
    /\ caller = "main" /\ fileExists /\ csv = <<>>
    /\ outcome[CMP] = "raised" /\ error = <<"IndexError">>
    /\ PrintedKind("loaded")

\* C9: when the baseline mean of the latest run is exactly 0,
\* plot_throughput_comparison raises a division-by-zero error and emits no speedup:
\* none is plotted, no comparison image is saved and no summary table is printed.
C9_ZeroBaselineSignalled ==
    (outcome[CMP] # "not_called" /\ baseline = Zero) =>
        /\ error = <<"ZeroDivisionError">>
        /\ speedup = <<>>
        /\ table = <<>>
        /\ "bench_plot.png" \notin images

\* C10: in a run of main that loaded its dataset, a chart function that raises does not
\* keep the later chart functions from being called: when the process has ended, every
\* chart function has been called.
C10_FailureIsLocal ==
    (caller = "main" /\ fileExists /\ pc = "exit") =>
        \A c \in Charts : outcome[c] # "not_called"
====
